---- MODULE Spec2Model ----
(***************************************************************************)
(* Model of version_02_rasterio.py: the module-level start-up script       *)
(* (band store loader, index engine, range statistics, initial figure and  *)
(* layout) followed by the two Dash callbacks update_figure and            *)
(* update_slider.                                                          *)
(*                                                                         *)
(* Numbers.  A float is modelled as a pair <<n, d>>: for d > 0 the exact   *)
(* rational n/d in lowest terms, and for d = 0 the IEEE specials           *)
(* <<1,0>> = +inf, <<-1,0>> = -inf, <<0,0>> = nan.  Binary rounding is     *)
(* modelled where the program's result depends on it: in the product       *)
(* limits[idx] * 100. and in round(., 1) of set_limit.                     *)
(*                                                                         *)
(* Strings (file names, store keys) are sequences of one-character         *)
(* strings so that replace/split act on characters as in Python.           *)
(***************************************************************************)
EXTENDS Integers, Sequences, FiniteSets

(***************************************************************************)
(* Bounds of the model.                                                    *)
(***************************************************************************)
\* largest raster pixel value of the enumerated scenes
MaxPix == 2
\* largest number of directory entries added to the six expected files
MaxExtra == 1
\* largest magnitude, in hundredths, of the Range Stats values drawn for set_limit
MaxHund == 12

(***************************************************************************)
(* Floats.                                                                 *)
(***************************************************************************)
Abs(i) == IF i < 0 THEN -i ELSE i

RECURSIVE GCD(_, _)
GCD(a, b) == IF b = 0 THEN a ELSE GCD(b, a % b)

\* the float n/d (d > 0) in lowest terms
Rat(n, d) == LET g == GCD(Abs(n), d) IN <<n \div g, d \div g>>

NaN == <<0, 0>>
PosInf == <<1, 0>>
NegInf == <<-1, 0>>
Zero == <<0, 1>>
Num(i) == <<i, 1>>

IsNaN(x) == x = NaN
IsFinite(x) == x[2] > 0
Sign(x) == IF x[1] > 0 THEN 1 ELSE IF x[1] < 0 THEN -1 ELSE 0

\* x < y, false when either is nan
Lt(x, y) ==
    IF IsNaN(x) \/ IsNaN(y) THEN FALSE
    ELSE IF IsFinite(x) /\ IsFinite(y) THEN x[1] * y[2] < y[1] * x[2]
    ELSE IF ~IsFinite(x) /\ ~IsFinite(y) THEN x[1] < y[1]
    ELSE IF IsFinite(x) THEN y = PosInf
    ELSE x = NegInf

\* x >= y, false when either is nan
Ge(x, y) == ~IsNaN(x) /\ ~IsNaN(y) /\ ~Lt(x, y)
Le(x, y) == Ge(y, x)

Neg(x) == <<-x[1], x[2]>>

Add(x, y) ==
    IF IsNaN(x) \/ IsNaN(y) THEN NaN
    ELSE IF IsFinite(x) /\ IsFinite(y) THEN Rat(x[1] * y[2] + y[1] * x[2], x[2] * y[2])
    ELSE IF ~IsFinite(x) /\ ~IsFinite(y) THEN (IF x = y THEN x ELSE NaN)
    ELSE IF IsFinite(x) THEN y
    ELSE x

Sub(x, y) == Add(x, Neg(y))

Mul(x, y) ==
    IF IsNaN(x) \/ IsNaN(y) THEN NaN
    ELSE IF IsFinite(x) /\ IsFinite(y) THEN Rat(x[1] * y[1], x[2] * y[2])
    ELSE IF Sign(x) * Sign(y) = 0 THEN NaN
    ELSE <<Sign(x) * Sign(y), 0>>

\* numpy true division: x/0 is +-inf, 0/0 and inf/inf are nan (a zero
\* denominator is +0.0: the denominators of the index formulas are a band or a
\* sum of two bands)
Div(x, y) ==
    IF IsNaN(x) \/ IsNaN(y) THEN NaN
    ELSE IF ~IsFinite(y) THEN (IF IsFinite(x) THEN Zero ELSE NaN)
    ELSE IF y[1] = 0 THEN (IF Sign(x) = 0 THEN NaN ELSE <<Sign(x), 0>>)
    ELSE IF ~IsFinite(x) THEN <<Sign(x) * Sign(y), 0>>
    ELSE Rat(x[1] * Sign(y) * y[2], x[2] * Abs(y[1]))

\* math.floor and math.ceil of a finite float, as integers
Floor(x) == x[1] \div x[2]
Ceil(x) == -((-x[1]) \div x[2])

(***************************************************************************)
(* set_limit (lines 72-77).                                                *)
(***************************************************************************)
\* Hundredths m >= 0 whose float m/100 times 100. lands just above m
\* (0.07 * 100. = 7.000000000000001), m up to 400.
FloatMulOver == {7, 14, 28, 55, 56, 109, 110, 111, 112, 218, 220, 222, 224,
                 243, 245, 247, 249}

\* Hundredths h >= 0 ending in 5 for which round(h/100., 1) goes up: the float
\* h/100. lies above the tie (0.45 is 0.450000000000000011), or is the tie and
\* the upper tenth is even (0.75); h up to 400.
RoundTieUp == {5, 45, 55, 65, 75, 105, 135, 155, 175, 185, 235, 245, 275, 285,
               295, 335, 345, 375, 385, 395}

\* a distance below every spacing of the modelled values: the float product's
\* rounding error beyond an integer
FloatUlp == <<1, 1000>>

\* limits[idx] * 100. for a finite float
Times100(x) ==
    LET p == Mul(x, Num(100))
    IN  IF p[2] = 1 /\ Abs(p[1]) \in FloatMulOver
        THEN Add(p, Mul(Num(Sign(p)), FloatUlp))
        ELSE p

\* round(h / 100., 1) for an integer h, as a float
Round1(h) ==
    LET a == Abs(h)
        q == a \div 10
        r == a % 10
        t == IF r > 5 \/ (r = 5 /\ a \in RoundTieUp) THEN q + 1 ELSE q
    IN  Rat((IF h < 0 THEN -1 ELSE 1) * t, 10)

\* math.floor / math.ceil raise on nan (ValueError) and on +-inf (OverflowError)
set_limit_raises(limits, idx) == ~IsFinite(limits[idx + 1])

\* a slip of the tuple order: (min, median, max) read where (min, max, median) is stored
set_limit_swapped(limits, idx) ==
    LET j == IF idx = 1 THEN 2 ELSE IF idx = 2 THEN 1 ELSE idx
    IN  IF Lt(limits[j + 1], Zero)
        THEN Round1(Floor(Times100(limits[j + 1])))
        ELSE Round1(Ceil(Times100(limits[j + 1])))

\* set_limit(limits, idx) where it returns; idx is 0, 1 or 2 as in the source
set_limit(limits, idx) ==
    IF Lt(limits[idx + 1], Zero)
    THEN Round1(Floor(Times100(limits[idx + 1])))
    ELSE Round1(Ceil(Times100(limits[idx + 1])))

(***************************************************************************)
(* numpy arrays: a 2-D array is a sequence of rows, a 3-D array a sequence *)
(* of 2-D arrays.                                                          *)
(***************************************************************************)
\* element-wise +, -, *, / of two 2-D arrays of one shape
ArrAdd(A, B) == [r \in DOMAIN A |-> [c \in DOMAIN A[r] |-> Add(A[r][c], B[r][c])]]
ArrSub(A, B) == [r \in DOMAIN A |-> [c \in DOMAIN A[r] |-> Sub(A[r][c], B[r][c])]]
ArrMul(A, B) == [r \in DOMAIN A |-> [c \in DOMAIN A[r] |-> Mul(A[r][c], B[r][c])]]
ArrDiv(A, B) == [r \in DOMAIN A |-> [c \in DOMAIN A[r] |-> Div(A[r][c], B[r][c])]]
\* scalar * array
Scale(k, A) == [r \in DOMAIN A |-> [c \in DOMAIN A[r] |-> Mul(k, A[r][c])]]

\* pixel positions and pixel values of a 2-D array
Pos(A) == {<<r, c>> : r \in DOMAIN A, c \in DOMAIN A[1]}
At(A, p) == A[p[1]][p[2]]
Values(A) == {At(A, p) : p \in Pos(A)}
HasNaN(A) == NaN \in Values(A)

\* np.min, np.max: nan when any pixel is nan
np_min(A) == IF HasNaN(A) THEN NaN
             ELSE CHOOSE v \in Values(A) : \A w \in Values(A) : Le(v, w)
np_max(A) == IF HasNaN(A) THEN NaN
             ELSE CHOOSE v \in Values(A) : \A w \in Values(A) : Ge(v, w)

\* the k-th smallest pixel value (k from 1) of an array without nan
Kth(A, k) ==
    CHOOSE v \in Values(A) :
        /\ Cardinality({p \in Pos(A) : Lt(At(A, p), v)}) < k
        /\ Cardinality({p \in Pos(A) : Le(At(A, p), v)}) >= k

\* np.median over all pixels: the middle value, or the mean of the two middle
\* values; nan when any pixel is nan
np_median(A) ==
    LET n == Cardinality(Pos(A))
    IN  IF HasNaN(A) THEN NaN
        ELSE IF n % 2 = 1 THEN Kth(A, (n + 1) \div 2)
        ELSE Div(Add(Kth(A, n \div 2), Kth(A, n \div 2 + 1)), Num(2))

\* np.swapaxes of a 3-D array
swapaxes_2_0(D) ==
    [i \in DOMAIN D[1][1] |-> [j \in DOMAIN D[1] |-> [k \in DOMAIN D |-> D[k][j][i]]]]
swapaxes_0_1(D) ==
    [i \in DOMAIN D[1] |-> [j \in DOMAIN D |-> [k \in DOMAIN D[1][1] |-> D[j][i][k]]]]

(***************************************************************************)
(* File names and the band-name derivation (line 23).                      *)
(***************************************************************************)
\* filename.replace(old, new)
Replace(s, old, new) == [i \in DOMAIN s |-> IF s[i] = old THEN new ELSE s[i]]

\* s.split(sep=sep): the tokens between separators, empty tokens kept
RECURSIVE Split(_, _)
Split(s, sep) ==
    IF \A i \in DOMAIN s : s[i] # sep THEN <<s>>
    ELSE LET i == CHOOSE j \in DOMAIN s : s[j] = sep /\ \A k \in 1..(j - 1) : s[k] # sep
         IN  <<SubSeq(s, 1, i - 1)>> \o Split(SubSeq(s, i + 1, Len(s)), sep)

Tokens(filename) == Split(Replace(filename, ".", "_"), "_")
\* [-2] of a list of fewer than two tokens raises IndexError
band_name_raises(filename) == Len(Tokens(filename)) < 2
band_name(filename) == Tokens(filename)[Len(Tokens(filename)) - 1]

triband == <<"t", "r", "i", "b", "a", "n", "d">>
B03 == <<"B", "0", "3">>
B04 == <<"B", "0", "4">>
B05 == <<"B", "0", "5">>
B08A == <<"B", "0", "8", "A">>
B11 == <<"B", "1", "1">>

\* the key of lines 31-36: 'triband' itself, else f'B{band_name}'
store_key(name) == IF name = triband THEN triband ELSE <<"B">> \o name

\* np.swapaxes(data, 2, 0) alone, the second swap forgotten
reorder_one_swap(data) == swapaxes_2_0(data)

\* lines 32-33: channel-first (3, R, C) to channel-last (R, C, 3)
reorder(data) == swapaxes_0_1(swapaxes_2_0(data))

\* lines 25-29: dataset.read(1) of a one-band dataset, else all bands stacked
read(entry) == IF Len(entry.bands) = 1 THEN entry.bands[1] ELSE entry.bands

(***************************************************************************)
(* The index formulas (lines 38-42) and Range Stats (line 44).             *)
(***************************************************************************)
IndexNames == {"TCARI", "VI700", "Soil Composition Index"}
RequiredBands == {B03, B04, B05, B08A, B11}

TCARI(st) ==
    ArrMul(st[B03],
           ArrSub(ArrSub(st[B05], st[B04]),
                  ArrMul(Scale(<<1, 5>>, ArrSub(st[B05], st[B03])),
                         ArrDiv(st[B05], st[B04]))))
VI700(st) == ArrDiv(ArrSub(st[B05], st[B04]), ArrAdd(st[B05], st[B04]))
SoilCompositionIndex(st) == ArrDiv(ArrSub(st[B11], st[B08A]), ArrAdd(st[B11], st[B08A]))

Indices(st) ==
    [k \in IndexNames |->
        IF k = "TCARI" THEN TCARI(st)
        ELSE IF k = "VI700" THEN VI700(st)
        ELSE SoilCompositionIndex(st)]

RangeStats(A) == <<np_min(A), np_max(A), np_median(A)>>

(***************************************************************************)
(* The classification map (lines 59-61 and 133-135).                       *)
(***************************************************************************)
\* the high level taken from the pixel itself, np.max forgotten
classify_no_max(A, thd) ==
    [r \in DOMAIN A |-> [c \in DOMAIN A[r] |->
        IF Ge(A[r][c], thd)
        THEN Mul(<<4, 5>>, A[r][c]) ELSE Mul(<<4, 5>>, np_min(A))]]

\* np.where with a strict comparison
classify_strict(A, thd) ==
    [r \in DOMAIN A |-> [c \in DOMAIN A[r] |->
        IF Ge(A[r][c], thd) /\ A[r][c] # thd
        THEN Mul(<<4, 5>>, np_max(A)) ELSE Mul(<<4, 5>>, np_min(A))]]

\* np.where(A >= thd, 0.8 * np.max(A), 0.8 * np.min(A))
classify(A, thd) ==
    [r \in DOMAIN A |-> [c \in DOMAIN A[r] |->
        IF Ge(A[r][c], thd)
        THEN Mul(<<4, 5>>, np_max(A)) ELSE Mul(<<4, 5>>, np_min(A))]]

(***************************************************************************)
(* The data directory: what os.listdir, os.path.isfile and rasterio give.  *)
(* An entry is [name, isfile, raster, bands]: raster says whether rio.open *)
(* succeeds, bands are the dataset's channels, each a 2-D array.           *)
(***************************************************************************)
Tif == <<".", "t", "i", "f">>
File(name, bands) == [name |-> name, isfile |-> TRUE, raster |-> TRUE, bands |-> bands]

\* the 1 x 2 rasters with pixel values 0..MaxPix
Rasters == {<< <<Num(a), Num(b)>> >> : a, b \in 0..MaxPix}

\* a three-channel 1 x 2 raster, every element distinct
Composite ==
    << << <<Num(10), Num(11)>> >>, << <<Num(20), Num(21)>> >>, << <<Num(30), Num(31)>> >> >>

\* the (B08A, B11) rasters of the enumerated scenes: a plain pair, a pair with
\* a pixel where both bands are 0 (0/0), and a pair giving a constant index
Soils ==
    { << << <<Num(1), Num(2)>> >>, << <<Num(2), Num(1)>> >> >>,
      << << <<Num(0), Num(1)>> >>, << <<Num(0), Num(2)>> >> >>,
      << << <<Num(1), Num(1)>> >>, << <<Num(1), Num(1)>> >> >> }

\* the directory of spec section 6: one file per band and the composite
Expected(b03, b04, b05, soil) ==
    << File(<<"a", "_", "0", "3">> \o Tif, <<b03>>),
       File(<<"a", "_", "0", "4">> \o Tif, <<b04>>),
       File(<<"a", "_", "0", "5">> \o Tif, <<b05>>),
       File(<<"a", "_", "0", "8", "A">> \o Tif, <<soil[1]>>),
       File(<<"a", "_", "1", "1">> \o Tif, <<soil[2]>>),
       File(<<"a", "_">> \o triband \o Tif, Composite) >>

\* other entries a directory may hold: a subdirectory, a second file of band
\* 03, a name without separator, a file that is no raster, a one-band file
\* named as the composite, a three-band file of another band
Extras ==
    << [name |-> <<"s", "u", "b">>, isfile |-> FALSE, raster |-> FALSE, bands |-> <<>>],
       File(<<"b", "_", "0", "3">> \o Tif, << << <<Num(2), Num(0)>> >> >>),
       [name |-> <<"R", "E", "A", "D", "M", "E">>, isfile |-> TRUE, raster |-> FALSE,
        bands |-> <<>>],
       [name |-> <<"n", "o", "t", "e", "s", ".", "t", "x", "t">>, isfile |-> TRUE,
        raster |-> FALSE, bands |-> <<>>],
       File(<<"g", "_">> \o triband \o Tif, << << <<Num(5), Num(6)>> >> >>),
       File(<<"c", "_", "9", "9">> \o Tif, Composite) >>

Candidates ==
    Expected(<< <<Num(1), Num(1)>> >>, << <<Num(1), Num(2)>> >>, << <<Num(2), Num(1)>> >>,
             << << <<Num(1), Num(2)>> >>, << <<Num(2), Num(1)>> >> >>) \o Extras

Reverse(q) == [i \in DOMAIN q |-> q[Len(q) + 1 - i]]
RECURSIVE Pick(_, _)
\* the entries of q at the positions in keep, in q's order
Pick(q, keep) ==
    IF q = <<>> THEN <<>>
    ELSE Pick(SubSeq(q, 1, Len(q) - 1), keep)
         \o (IF Len(q) \in keep THEN <<q[Len(q)]>> ELSE <<>>)

\* Directory listings: the expected files less at most one, with at most
\* MaxExtra other entries, in either order (os.listdir's order is arbitrary);
\* and the empty directory
Listings ==
    LET dirs == {keep \in SUBSET (1..Len(Candidates)) :
                    /\ Cardinality((1..6) \ keep) <= 1
                    /\ Cardinality(keep \ (1..6)) <= MaxExtra}
    IN  {Pick(Candidates, keep) : keep \in dirs}
        \cup {Reverse(Pick(Candidates, keep)) : keep \in dirs}
        \cup {<<>>}

\* Scenes: the expected directory over the enumerated band rasters; the soil
\* bands vary with the other bands fixed
Scenes ==
    {Expected(b03, b04, b05, << << <<Num(1), Num(2)>> >>, << <<Num(2), Num(1)>> >> >>) :
        b03 \in {<< <<Num(1), Num(1)>> >>, << <<Num(0), Num(1)>> >>},
        b04 \in Rasters, b05 \in Rasters}
    \cup {Expected(<< <<Num(1), Num(1)>> >>, << <<Num(1), Num(2)>> >>, << <<Num(2), Num(1)>> >>,
                   soil) : soil \in Soils}

(***************************************************************************)
(* State.                                                                  *)
(***************************************************************************)
VARIABLES
    listing,      \* os.listdir(data_folder), in the order the loop visits it
    pc,           \* where the script is: "load", "stats", "fig", "layout",
                  \* "main", "serving" (app.run_server), "aborted" (an exception
                  \* left the script)
    cursor,       \* position in listing of the entry the for loop visits next
    exc,          \* the exception that ended the script, "" when none
    store,        \* store: key -> array
    index_store,  \* index_store: index name -> 2-D array
    min_max,      \* min_max: index name -> (min, max, median)
    ret,          \* the latest output: of the initial figure, of the layout's
                  \* slider, or of the latest callback invocation
    seen          \* history: <<>>, or the first update_figure invocation that
                  \* returned a figure and whether another invocation followed it

vars == <<listing, pc, cursor, exc, store, index_store, min_max, ret, seen>>

None == <<>>
Output(cb, args, status, out) == [cb |-> cb, args |-> args, status |-> status, out |-> out]

\* store[key] = data
Put(st, key, data) == [k \in DOMAIN st \cup {key} |-> IF k = key THEN data ELSE st[k]]

\* the three traces of a figure: composite, index, classification map
Figure(selected_index, thd) ==
    [composite |-> store[triband],
     index |-> index_store[selected_index],
     classes |-> classify(index_store[selected_index], thd)]

Start(l) ==
    /\ listing = l
    /\ pc = "load"
    /\ cursor = 1
    /\ exc = ""
    /\ store = <<>>
    /\ index_store = <<>>
    /\ min_max = <<>>
    /\ ret = Output("none", <<>>, "ok", None)
    /\ seen = <<>>

Init == \E l \in Listings \cup Scenes : Start(l)

Abort(e) ==
    /\ pc' = "aborted"
    /\ exc' = e

(***************************************************************************)
(* Start-up: the module-level script.                                      *)
(***************************************************************************)
\* the loop passing over a file rasterio cannot open
LoadFile_skip ==
    /\ pc = "load"
    /\ cursor <= Len(listing)
    /\ LET entry == listing[cursor]
       IN  IF ~entry.isfile \/ (~band_name_raises(entry.name) /\ ~entry.raster)
           THEN /\ cursor' = cursor + 1
                /\ UNCHANGED <<pc, exc, store>>
           ELSE IF band_name_raises(entry.name)
           THEN Abort("IndexError") /\ UNCHANGED <<cursor, store>>
           ELSE IF band_name(entry.name) = triband /\ Len(entry.bands) = 1
           THEN Abort("AxisError") /\ UNCHANGED <<cursor, store>>
           ELSE /\ store' = Put(store, store_key(band_name(entry.name)),
                                IF band_name(entry.name) = triband
                                THEN reorder(read(entry)) ELSE read(entry))
                /\ cursor' = cursor + 1
                /\ UNCHANGED <<pc, exc>>
    /\ UNCHANGED <<listing, index_store, min_max, ret, seen>>

\* one iteration of the for loop, lines 21-36
LoadFile ==
    /\ pc = "load"
    /\ cursor <= Len(listing)
    /\ LET entry == listing[cursor]
       IN  IF ~entry.isfile
           THEN /\ cursor' = cursor + 1
                /\ UNCHANGED <<pc, exc, store>>
           ELSE IF band_name_raises(entry.name)
           THEN Abort("IndexError") /\ UNCHANGED <<cursor, store>>
           ELSE IF ~entry.raster
           THEN Abort("RasterioIOError") /\ UNCHANGED <<cursor, store>>
           ELSE IF band_name(entry.name) = triband /\ Len(entry.bands) = 1
           THEN Abort("AxisError") /\ UNCHANGED <<cursor, store>>
           ELSE /\ store' = Put(store, store_key(band_name(entry.name)),
                                IF band_name(entry.name) = triband
                                THEN reorder(read(entry)) ELSE read(entry))
                /\ cursor' = cursor + 1
                /\ UNCHANGED <<pc, exc>>
    /\ UNCHANGED <<listing, index_store, min_max, ret, seen>>

\* lines 38-42, after the loop has visited every entry
IndexEngine ==
    /\ pc = "load"
    /\ cursor > Len(listing)
    /\ IF RequiredBands \subseteq DOMAIN store
       THEN /\ index_store' = Indices(store)
            /\ pc' = "stats"
            /\ UNCHANGED exc
       ELSE Abort("KeyError") /\ UNCHANGED index_store
    /\ UNCHANGED <<listing, cursor, store, min_max, ret, seen>>

\* line 44
Stats ==
    /\ pc = "stats"
    /\ min_max' = [k \in DOMAIN index_store |-> RangeStats(index_store[k])]
    /\ pc' = "fig"
    /\ UNCHANGED <<listing, cursor, exc, store, index_store, ret, seen>>

\* lines 47-68: fig, thresholded at the median of TCARI
InitialFigure ==
    /\ pc = "fig"
    /\ IF triband \in DOMAIN store
       THEN /\ ret' = Output("fig", <<>>, "ok",
                             Figure("TCARI", np_median(index_store["TCARI"])))
            /\ pc' = "layout"
            /\ UNCHANGED exc
       ELSE Abort("KeyError") /\ UNCHANGED ret
    /\ UNCHANGED <<listing, cursor, store, index_store, min_max, seen>>

\* what math.floor / math.ceil raise on a value that is not finite
set_limit_error(x) == IF IsNaN(x) THEN "ValueError" ELSE "OverflowError"

\* the first of the calls set_limit(s, 0), set_limit(s, 1), set_limit(s, 2) to raise
first_raising(s) == CHOOSE idx \in 0..2 :
    set_limit_raises(s, idx) /\ \A j \in 0..(idx - 1) : ~set_limit_raises(s, j)

\* lines 82-115: the slider's min, max and value from min_max['TCARI']
Layout ==
    /\ pc = "layout"
    /\ LET s == min_max["TCARI"]
       IN  IF \E idx \in 0..2 : set_limit_raises(s, idx)
           THEN Abort(set_limit_error(s[first_raising(s) + 1])) /\ UNCHANGED ret
           ELSE /\ ret' = Output("layout", <<>>, "ok",
                                 <<set_limit(s, 0), set_limit(s, 1), set_limit(s, 2)>>)
                /\ pc' = "main"
                /\ UNCHANGED exc
    /\ UNCHANGED <<listing, cursor, store, index_store, min_max, seen>>

\* lines 160-161
RunServer ==
    /\ pc = "main"
    /\ pc' = "serving"
    /\ UNCHANGED <<listing, cursor, exc, store, index_store, min_max, ret, seen>>

(***************************************************************************)
(* The callbacks.                                                          *)
(***************************************************************************)
\* the index names a parameter event may carry: the three of the dropdown and
\* one that index_store does not hold
Selections == IndexNames \cup {"NDVI"}

\* the thresholds tried on an index: each finite pixel value, one below the
\* least and one above the greatest of them, and 0
Thresholds(selected_index) ==
    IF selected_index \notin DOMAIN index_store THEN {Zero}
    ELSE LET F == {v \in Values(index_store[selected_index]) : IsFinite(v)}
         IN  F \cup {Zero}
               \cup {Sub(v, Num(1)) : v \in {u \in F : \A w \in F : Le(u, w)}}
               \cup {Add(v, Num(1)) : v \in {u \in F : \A w \in F : Ge(u, w)}}

\* the history after an invocation with output r
History(s, r) ==
    IF s = <<>>
    THEN (IF r.cb = "update_figure" /\ r.status = "ok" THEN <<r, FALSE>> ELSE <<>>)
    ELSE IF r.cb = s[1].cb /\ r.args = s[1].args THEN s
    ELSE <<s[1], TRUE>>

\* update_figure writing the classification map back into index_store
update_figure_in_place(selected_index, thd) ==
    /\ pc = "serving"
    /\ IF triband \notin DOMAIN store \/ selected_index \notin DOMAIN index_store
       THEN /\ ret' = Output("update_figure", <<selected_index, thd>>, "KeyError", None)
            /\ seen' = History(seen, ret')
            /\ UNCHANGED index_store
       ELSE /\ ret' = Output("update_figure", <<selected_index, thd>>, "ok",
                             Figure(selected_index, thd))
            /\ seen' = History(seen, ret')
            /\ index_store' = [index_store EXCEPT ![selected_index] =
                                  classify(index_store[selected_index], thd)]
    /\ UNCHANGED <<listing, pc, cursor, exc, store, min_max>>

\* update_figure substituting TCARI for a name index_store does not hold
update_figure_default(selected_index, thd) ==
    /\ pc = "serving"
    /\ LET name == IF selected_index \in DOMAIN index_store THEN selected_index ELSE "TCARI"
       IN  /\ ret' = Output("update_figure", <<selected_index, thd>>, "ok", Figure(name, thd))
           /\ seen' = History(seen, ret')
    /\ UNCHANGED <<listing, pc, cursor, exc, store, index_store, min_max>>

\* lines 118-146
update_figure(selected_index, thd) ==
    /\ pc = "serving"
    /\ IF triband \notin DOMAIN store \/ selected_index \notin DOMAIN index_store
       THEN /\ ret' = Output("update_figure", <<selected_index, thd>>, "KeyError", None)
            /\ seen' = History(seen, ret')
       ELSE /\ ret' = Output("update_figure", <<selected_index, thd>>, "ok",
                             Figure(selected_index, thd))
            /\ seen' = History(seen, ret')
    /\ UNCHANGED <<listing, pc, cursor, exc, store, index_store, min_max>>

\* update_slider keeping the slider's value when it lies in the new range
update_slider_keep(selected_index) ==
    /\ pc = "serving"
    /\ IF selected_index \notin DOMAIN min_max
       THEN ret' = Output("update_slider", <<selected_index>>, "KeyError", None)
       ELSE LET s == min_max[selected_index]
            IN  IF \E idx \in 0..2 : set_limit_raises(s, idx)
                THEN ret' = Output("update_slider", <<selected_index>>,
                                   set_limit_error(s[first_raising(s) + 1]), None)
                ELSE ret' = Output("update_slider", <<selected_index>>, "ok",
                                   <<set_limit(s, 0), set_limit(s, 1),
                                     IF /\ ret.cb \in {"layout", "update_slider"}
                                        /\ ret.status = "ok"
                                        /\ Le(set_limit(s, 0), ret.out[3])
                                        /\ Le(ret.out[3], set_limit(s, 1))
                                     THEN ret.out[3] ELSE set_limit(s, 2)>>)
    /\ seen' = History(seen, ret')
    /\ UNCHANGED <<listing, pc, cursor, exc, store, index_store, min_max>>

\* lines 149-158
update_slider(selected_index) ==
    /\ pc = "serving"
    /\ IF selected_index \notin DOMAIN min_max
       THEN ret' = Output("update_slider", <<selected_index>>, "KeyError", None)
       ELSE LET s == min_max[selected_index]
            IN  IF \E idx \in 0..2 : set_limit_raises(s, idx)
                THEN ret' = Output("update_slider", <<selected_index>>,
                                   set_limit_error(s[first_raising(s) + 1]), None)
                ELSE ret' = Output("update_slider", <<selected_index>>, "ok",
                                   <<set_limit(s, 0), set_limit(s, 1), set_limit(s, 2)>>)
    /\ seen' = History(seen, ret')
    /\ UNCHANGED <<listing, pc, cursor, exc, store, index_store, min_max>>

UpdateFigure == \E sel \in Selections : \E thd \in Thresholds(sel) : update_figure(sel, thd)
UpdateSlider == \E sel \in Selections : update_slider(sel)

Next ==
    \/ LoadFile
    \/ IndexEngine
    \/ Stats
    \/ InitialFigure
    \/ Layout
    \/ RunServer
    \/ UpdateFigure
    \/ UpdateSlider

Spec == Init /\ [][Next]_vars

(***************************************************************************)
(* set_limit on its own: the script at the layout with a Range Stats       *)
(* triple drawn from a grid of multiples of 0.0001.                        *)
(***************************************************************************)
\* the grid: whole hundredths up to MaxHund, and each plus 0.0045, either sign
Grid ==
    {Rat(sg * (100 * h + f), 10000) : sg \in {-1, 1}, h \in 0..MaxHund, f \in {0, 45}}

Triples == {s \in Grid \X Grid \X Grid : Le(s[1], s[3]) /\ Le(s[3], s[2])}

InitLimit ==
    /\ listing = <<>>
    /\ pc = "layout"
    /\ cursor = 1
    /\ exc = ""
    /\ store = <<>>
    /\ index_store = <<>>
    /\ \E s \in Triples : min_max = [k \in IndexNames |-> s]
    /\ ret = Output("none", <<>>, "ok", None)
    /\ seen = <<>>

NextLimit == Layout \/ RunServer \/ UpdateSlider

SpecLimit == InitLimit /\ [][NextLimit]_vars

(***************************************************************************)
(* Properties.                                                             *)
(***************************************************************************)
Callbacks == {"update_figure", "update_slider"}

\* the latest output is a slider triple (of the layout or of update_slider)
SliderPublished == ret.cb \in {"layout", "update_slider"} /\ ret.status = "ok"
\* the index whose Range Stats the latest slider triple was made from
SliderIndex == IF ret.cb = "layout" THEN "TCARI" ELSE ret.args[1]

\* the latest output is a figure (the initial one or update_figure's)
FigurePublished == ret.cb \in {"fig", "update_figure"} /\ ret.status = "ok"
FigureIndex == IF ret.cb = "fig" THEN index_store["TCARI"] ELSE index_store[ret.args[1]]
FigureThreshold == IF ret.cb = "fig" THEN np_median(index_store["TCARI"]) ELSE ret.args[2]
High(A) == Mul(<<4, 5>>, np_max(A))
Low(A) == Mul(<<4, 5>>, np_min(A))

\* the shape of a 3-D array
Shape3(D) == <<Len(D), Len(D[1]), Len(D[1][1])>>

\* the entries the loop has visited that are regular files
Visited == {i \in 1..(cursor - 1) : listing[i].isfile}
KeyOf(i) == store_key(band_name(listing[i].name))

\* C1: outward rounding: every published slider range contains the true
\* minimum and maximum of its Range Stats triple: set_limit(s, 0) <= min and
\* set_limit(s, 1) >= max.
OutwardRounding ==
    SliderPublished =>
        /\ Le(ret.out[1], min_max[SliderIndex][1])
        /\ Ge(ret.out[2], min_max[SliderIndex][2])

\* C2: threshold rule: in every figure the classification map is
\* 0.8*max(I) at each pixel with I[p] >= thd (a pixel equal to thd included)
\* and 0.8*min(I) at each pixel with I[p] < thd; where the two levels differ,
\* the pixels carrying the high level are as many as the pixels >= thd.
ThresholdRule ==
    FigurePublished =>
        LET I == FigureIndex
            t == FigureThreshold
            M == ret.out.classes
        IN  /\ \A p \in Pos(I) :
                /\ Ge(At(I, p), t) => At(M, p) = High(I)
                /\ Lt(At(I, p), t) => At(M, p) = Low(I)
                /\ At(I, p) = t /\ ~IsNaN(t) => At(M, p) = High(I)
            /\ High(I) # Low(I) =>
                   Cardinality({p \in Pos(I) : At(M, p) = High(I)})
                       = Cardinality({p \in Pos(I) : Ge(At(I, p), t)})

\* C2 witness: a figure whose threshold equals one pixel and exceeds another
ThresholdRuleWitness ==
    /\ ret.cb = "update_figure"
    /\ ret.status = "ok"
    /\ \E p, q \in Pos(FigureIndex) :
           /\ At(FigureIndex, p) = FigureThreshold
           /\ Lt(At(FigureIndex, q), FigureThreshold)
           /\ At(ret.out.classes, p) # At(ret.out.classes, q)

\* C3 as stated: every classification map holds exactly two distinct values,
\* 0.8*min(Index) and 0.8*max(Index).
ExactlyTwoValues ==
    ret.cb = "update_figure" /\ ret.status = "ok" =>
        /\ Values(ret.out.classes) = {Low(FigureIndex), High(FigureIndex)}
        /\ Cardinality(Values(ret.out.classes)) = 2

\* C3 amended: every value of the classification map is 0.8*min(Index) or
\* 0.8*max(Index); the map holds two distinct values when the index has no nan
\* and has a pixel >= thd and a pixel < thd, and a single value otherwise.
AtMostTwoValues ==
    ret.cb = "update_figure" /\ ret.status = "ok" =>
        LET I == FigureIndex
            t == FigureThreshold
            M == ret.out.classes
        IN  /\ Values(M) \subseteq {Low(I), High(I)}
            /\ Cardinality(Values(M)) =
                   IF /\ ~HasNaN(I)
                      /\ \E p \in Pos(I) : Ge(At(I, p), t)
                      /\ \E p \in Pos(I) : Lt(At(I, p), t)
                   THEN 2 ELSE 1

\* C3 witness: a map of one value, the threshold above every pixel of a
\* non-constant index
AtMostTwoValuesWitness ==
    /\ ret.cb = "update_figure"
    /\ ret.status = "ok"
    /\ Cardinality(Values(FigureIndex)) = 2
    /\ \A p \in Pos(FigureIndex) : Lt(At(FigureIndex, p), FigureThreshold)
    /\ Values(ret.out.classes) = {Low(FigureIndex)}

\* C4: keys are unique and a collision is fatal: whenever start-up has
\* completed and the application serves, the store has one entry per regular
\* file read, each holding that file's data (two files of one key never get
\* that far).
UniqueKeys ==
    pc = "serving" =>
        /\ Cardinality(DOMAIN store) = Cardinality(Visited)
        /\ \A i \in Visited :
               /\ KeyOf(i) \in DOMAIN store
               /\ store[KeyOf(i)] = IF KeyOf(i) = triband THEN reorder(read(listing[i]))
                                    ELSE read(listing[i])

\* C5: an index name outside the three fails: the invocation ends in a
\* KeyError, returns nothing, and leaves store, index_store and min_max as
\* they were.
UnknownIndexFails ==
    [][(/\ ret' # ret
        /\ ret'.cb \in Callbacks
        /\ ret'.args[1] \notin IndexNames)
       => (/\ ret'.status = "KeyError"
           /\ ret'.out = None
           /\ UNCHANGED <<store, index_store, min_max>>)]_vars

\* C5 witness: update_figure invoked with a name index_store does not hold
UnknownIndexFailsWitness ==
    /\ ret.cb = "update_figure"
    /\ ret.args[1] \notin IndexNames
    /\ ret.status = "KeyError"

\* C6: the triple update_slider publishes is set_limit of the (min, max,
\* median) of the index selected in that invocation, whatever was published
\* before.
SliderFromSelection ==
    ret.cb = "update_slider" /\ ret.status = "ok" =>
        LET s == RangeStats(index_store[ret.args[1]])
        IN  ret.out = <<set_limit(s, 0), set_limit(s, 1), set_limit(s, 2)>>

\* C6 witness: a selection whose triple differs from the layout's
SliderFromSelectionWitness ==
    /\ ret.cb = "update_slider"
    /\ ret.status = "ok"
    /\ ret.args[1] # "TCARI"
    /\ ret.out # <<set_limit(min_max["TCARI"], 0), set_limit(min_max["TCARI"], 1),
                   set_limit(min_max["TCARI"], 2)>>

\* C7: while serving, no invocation changes store, index_store or min_max,
\* and update_figure invoked again with the arguments of its first invocation
\* returns the same figure.
CallbacksPure ==
    [][pc = "serving" =>
         /\ UNCHANGED <<store, index_store, min_max>>
         /\ (/\ seen' # <<>>
             /\ ret'.cb = "update_figure"
             /\ ret'.args = seen'[1].args) => ret'.out = seen'[1].out]_vars

\* C7 witness: the first invocation's arguments again, after another invocation
CallbacksPureWitness ==
    /\ seen # <<>>
    /\ seen[2]
    /\ ret.cb = "update_figure"
    /\ ret.args = seen[1].args

\* C8: a callback has run only in the serving state; the serving state is
\* entered only with every directory entry visited, every regular file's key
\* in the store, the three indices computed from the store and their Range
\* Stats stored; an exception during start-up ends the script for good.
StartupOrdering ==
    /\ [](/\ ret.cb \in Callbacks => pc = "serving"
          /\ exc # "" <=> pc = "aborted"
          /\ pc = "serving" =>
                /\ cursor = Len(listing) + 1
                /\ \A i \in Visited : KeyOf(i) \in DOMAIN store
                /\ RequiredBands \cup {triband} \subseteq DOMAIN store
                /\ index_store = Indices(store)
                /\ min_max = [k \in IndexNames |-> RangeStats(index_store[k])])
    /\ [][pc = "aborted" => pc' = "aborted" /\ ret' = ret]_vars

\* C8 witness: the script aborted with files already in the store
StartupOrderingWitness ==
    /\ pc = "aborted"
    /\ DOMAIN store # {}
    /\ ~(RequiredBands \subseteq DOMAIN store)

\* C9: each step of the loop that stores a file stores the composite under
\* 'triband' with the channel axis last, stored[r][c][k] = d[k][r][c] and shape
\* (R, C, 3) for a read of shape (3, R, C), and every other file under
\* 'B' + identifier as it was read.
CompositeAxisOrder ==
    [][(cursor' = cursor + 1 /\ listing[cursor].isfile) =>
         LET d == read(listing[cursor])
             name == band_name(listing[cursor].name)
         IN  IF name = triband
             THEN /\ DOMAIN store' = DOMAIN store \cup {triband}
                  /\ Shape3(store'[triband]) = <<Shape3(d)[2], Shape3(d)[3], Shape3(d)[1]>>
                  /\ \A k \in 1..Shape3(d)[1], r \in 1..Shape3(d)[2], c \in 1..Shape3(d)[3] :
                         store'[triband][r][c][k] = d[k][r][c]
             ELSE /\ DOMAIN store' = DOMAIN store \cup {<<"B">> \o name}
                  /\ store'[<<"B">> \o name] = d]_vars

\* C9 witness: a composite of 1 row and 2 columns stored next to a
\* three-band file of another name
CompositeAxisOrderWitness ==
    /\ triband \in DOMAIN store
    /\ Shape3(store[triband]) = <<1, 2, 3>>
    /\ <<"B", "9", "9">> \in DOMAIN store

\* C10: the published slider default lies in the published slider range:
\* set_limit(s, 0) <= set_limit(s, 2) <= set_limit(s, 1).
DefaultInRange ==
    SliderPublished => Le(ret.out[1], ret.out[3]) /\ Le(ret.out[3], ret.out[2])

\* C10 witness: update_slider on a triple around zero whose rounded values
\* are three different tenths
DefaultInRangeWitness ==
    /\ ret.cb = "update_slider"
    /\ ret.status = "ok"
    /\ Lt(min_max[ret.args[1]][1], Zero)
    /\ Lt(ret.out[1], ret.out[3])
    /\ Lt(ret.out[3], ret.out[2])

====
